---- MODULE Spec2Model ----
(***************************************************************************)
(* The queue engine of uq (src/queue/uQueue.go): the topic registry, the   *)
(* Create / Push / Pop / Confirm entry points, the persistence of the      *)
(* topic-name set, Close with its export of every topic, and the recovery  *)
(* of an engine from the storage (NewUnitedQueue, loadQueue, loadTopic).   *)
(* The topic and line types the engine delegates to live in files of the   *)
(* package that are not part of src/; they are modelled from the design    *)
(* document (sections 4.2, 4.3 and 6) and marked as such.                  *)
(*                                                                         *)
(* Names are sequences of one-character strings, so that strings.Split is  *)
(* modelled by what it does.  Topics are heap objects (Go pointers): the   *)
(* registry maps a name to an object id, and a caller that has resolved a  *)
(* name keeps the id while it runs the delegated call.                     *)
(***************************************************************************)
EXTENDS Integers, Sequences, FiniteSets, TLC

\* ---------------------------------------------------------------- bounds
MaxPush == 2
MaxClock == 2
MaxTopics == 2

\* ------------------------------------------------------------ input sets
Procs == {"p1", "p2"}
EmptyName == <<>>
TopicNames == {<<"t">>, <<"u">>}
LineNames == {<<"l">>}
Recycles == {0, 1}
Paths ==
  { <<>>, <<"t">>, <<"/">>, <<"t", "/">>, <<"/", "l">>,
    <<"t", "/", "l">>, <<"u", "/", "l">>, <<"t", "/", "t">>,
    <<"t", "/", "l", "/">>, <<"t", "/", "/", "l">>, <<"/", "/">> }

\* ------------------------------------------------------ error constants
NoErr == "nil"
ErrTopicNotExisted == "Topic Not Existed"
ErrLineNotExisted == "Line Not Existed"
ErrTopicExisted == "Topic Has Existed"
ErrLineExisted == "Line Has Existed"
ErrNotDelivered == "Message Not Delivered"
ErrKey == "Key Illegal"
ErrNone == "No Message"
ErrStorage == "storage error"

\* The key of the engine record.
StorageKeyWord == <<"UnitedQueueKey">>

\* -------------------------------------------------------------- helpers
Min(S) == CHOOSE x \in S : \A y \in S : x <= y

\* Messages accepted so far, over all topic objects.
RECURSIVE Pushed(_)
Pushed(h) == IF h = <<>> THEN 0 ELSE h[Len(h)].tail + Pushed(SubSeq(h, 1, Len(h) - 1))

Without(f, k) == [x \in DOMAIN f \ {k} |-> f[x]]

With(f, k, v) == [x \in DOMAIN f \cup {k} |-> IF x = k THEN v ELSE f[x]]

\* strings.Split(s, "/"): the segments between the separators, in order;
\* a string without separator (the empty one included) is its only segment.
RECURSIVE Split(_)
Split(s) ==
  IF \A i \in 1..Len(s) : s[i] # "/"
  THEN << s >>
  ELSE LET i == Min({j \in 1..Len(s) : s[j] = "/"})
       IN  << SubSeq(s, 1, i - 1) >> \o Split(SubSeq(s, i + 1, Len(s)))

VARIABLES
  topics,    \* u.topics: topic name -> id of the topic object
  heap,      \* the topic objects allocated so far; an object's id is its index
  running,   \* ids of the topics whose background loop runs (t.start())
  mu,        \* u.mu: "" when free, else the process holding it
  qstore,    \* storage[StorageKeyWord]: <<>> when never written, else << set of names >>
  now,       \* the clock
  pc,        \* per process: the call it is inside of
  ev,        \* the step just taken: call, arguments, result
  pushOk,    \* per topic object: number of Push calls that returned nil
  confirmed, \* <<topic id, line, offset, recycled>> of every Confirm that returned
             \* nil; recycled: a scan had found the offset expired before
  born,      \* <<topic id, line>> -> topic tail when the line was created
  tstore,    \* storage[topic name]: the topic record last written
  lstore,    \* storage["<topic>/<line>"]: the line record last written
  damage,    \* storage keys whose bytes are "empty" or "garbage" (do not decode)
  sclose,    \* number of storage.Close() calls on the engine's storage handle
  todo,      \* Close: the topics exportTopics has not reached yet
  created    \* names of the topics whose Create returned nil, over all restarts

vars == << topics, heap, running, mu, qstore, now, pc, ev, pushOk, confirmed, born,
           tstore, lstore, damage, sclose, todo, created >>

Idle == [op |-> "idle", tid |-> 0, name |-> EmptyName, line |-> EmptyName, n |-> 0]

Event(op, name, line, path, n, tid, err, off) ==
  [op |-> op, name |-> name, line |-> line, path |-> path,
   n |-> n, tid |-> tid, err |-> err, off |-> off]

Init ==
  /\ topics = [x \in {} |-> 0]
  /\ heap = <<>>
  /\ running = {}
  /\ mu = ""
  /\ qstore = <<>>
  /\ now = 0
  /\ pc = [p \in Procs |-> Idle]
  /\ ev = Event("init", EmptyName, EmptyName, <<>>, 0, 0, NoErr, 0)
  /\ pushOk = <<>>
  /\ confirmed = {}
  /\ born = [x \in {} |-> 0]
  /\ tstore = [x \in {} |-> 0]
  /\ lstore = [x \in {} |-> 0]
  /\ damage = [x \in {} |-> ""]
  /\ sclose = 0
  /\ todo = {}
  /\ created = {}

\* ------------------------------------------------- line (design doc 4.3)
\* A line created on a topic: the cursor starts at the topic's tail.
newLine(tail, recycle) ==
  [cursor |-> tail, recycleTimeout |-> recycle, inFlight |-> <<>>]

\* Offsets of the in-flight entries a recycle scan has found expired.
Recycled(l) == {o \in DOMAIN l.inFlight : l.inFlight[o].ready}

\* An offset is handed out: tracked with a fresh deadline unless recycle is off.
Deliver(l, o, clock) ==
  IF l.recycleTimeout > 0
  THEN With(l.inFlight, o, [deadline |-> clock + l.recycleTimeout, ready |-> FALSE])
  ELSE l.inFlight

\* pop(): a recycled entry first (lowest offset), else the offset at cursor,
\* else NoMessage.
linePop(l, tail, clock) ==
  IF Recycled(l) # {}
  THEN LET o == Min(Recycled(l))
       IN  [l |-> [l EXCEPT !.inFlight = Deliver(l, o, clock)], err |-> NoErr, off |-> o]
  ELSE IF l.cursor < tail
  THEN [l |-> [l EXCEPT !.cursor = l.cursor + 1, !.inFlight = Deliver(l, l.cursor, clock)],
        err |-> NoErr, off |-> l.cursor]
  ELSE [l |-> l, err |-> ErrNone, off |-> 0]

\* confirm(offset): remove the in-flight entry, or NotDelivered.
lineConfirm(l, o) ==
  IF o \in DOMAIN l.inFlight
  THEN [l |-> [l EXCEPT !.inFlight = Without(l.inFlight, o)], err |-> NoErr]
  ELSE [l |-> l, err |-> ErrNotDelivered]

\* recycleScan(now): every entry whose deadline has come is marked; it stays
\* in-flight until a pop redelivers it or a confirm removes it.
lineRecycle(l, clock) ==
  [l EXCEPT !.inFlight =
     [o \in DOMAIN l.inFlight |->
        IF l.inFlight[o].deadline <= clock
        THEN [l.inFlight[o] EXCEPT !.ready = TRUE]
        ELSE l.inFlight[o]]]

\* ------------------------------------------------ topic (design doc 4.2)
\* Push(payload): the message is written at tail through setData; only a
\* successful write advances tail.
topicPush(t, ok) ==
  IF ok
  THEN [t |-> [t EXCEPT !.tail = t.tail + 1], err |-> NoErr]
  ELSE [t |-> t, err |-> ErrStorage]

topicCreateLine(t, lineName, recycle) ==
  IF lineName \in DOMAIN t.lines
  THEN [t |-> t, err |-> ErrLineExisted]
  ELSE [t |-> [t EXCEPT !.lines = With(t.lines, lineName, newLine(t.tail, recycle))],
        err |-> NoErr]

topicPop(t, lineName, clock) ==
  IF lineName \notin DOMAIN t.lines
  THEN [t |-> t, err |-> ErrLineNotExisted, off |-> 0]
  ELSE LET r == linePop(t.lines[lineName], t.tail, clock)
       IN  [t |-> [t EXCEPT !.lines[lineName] = r.l], err |-> r.err, off |-> r.off]

topicConfirm(t, lineName, o) ==
  IF lineName \notin DOMAIN t.lines
  THEN [t |-> t, err |-> ErrLineNotExisted]
  ELSE LET r == lineConfirm(t.lines[lineName], o)
       IN  [t |-> [t EXCEPT !.lines[lineName] = r.l], err |-> r.err]

\* Whether offset o of the line is in flight and marked by a scan.
WasRecycled(t, lineName, o) ==
  /\ lineName \in DOMAIN t.lines
  /\ o \in Recycled(t.lines[lineName])

topicRecycle(t, clock) ==
  [t EXCEPT !.lines = [n \in DOMAIN t.lines |-> lineRecycle(t.lines[n], clock)]]

\* ------------------------------------------------------------- engine
\* t, ok := u.topics[name]
hasTopic(name) == name \in DOMAIN topics

\* newTopic: an empty topic object (its background loop is started by the caller step)
newTopic(name) == [name |-> name, head |-> 0, tail |-> 0, lines |-> <<>>]

\* A slice made with its final length and then appended to keeps its empty slots.
genQueueStoreAppended == DOMAIN topics \cup {EmptyName}

\* genQueueStore: the names of the registered topics
genQueueStore == DOMAIN topics

\* exportQueue: the record written under StorageKeyWord when storage.Set succeeds
exportQueue(ok) == IF ok THEN << genQueueStore >> ELSE qstore

exportQueueErr(ok) == IF ok THEN NoErr ELSE ErrStorage

\* exportQueue, line 200: a successful Set replaces whatever bytes the key held
exportQueueRepair(ok) == IF ok THEN Without(damage, StorageKeyWord) ELSE damage

\* createTopic returning the export error without the delete.
createTopicNoRollback(name, err) == topics

\* createTopic, lines 162-165: delete(u.topics, name) when the export failed
createTopicRollback(name, err) ==
  IF err # NoErr THEN Without(topics, name) ELSE topics

\* createTopic without its lookup of the name: an existing topic is replaced.
CreateCheckNoLookup(topicName, lineName) ==
  IF lineName # EmptyName
  THEN IF hasTopic(topicName) THEN "line" ELSE ErrTopicNotExisted
  ELSE IF topicName # EmptyName THEN "topic" ELSE ErrKey

\* Create, lines 127-144 and 150-153: which branch a request takes before any
\* topic is built
CreateCheck(topicName, lineName) ==
  IF lineName # EmptyName
  THEN IF hasTopic(topicName) THEN "line" ELSE ErrTopicNotExisted
  ELSE IF topicName # EmptyName
  THEN IF hasTopic(topicName) THEN ErrTopicExisted ELSE "topic"
  ELSE ErrKey

\* The key check accepting every key that has at least two segments.
PopKeyAtLeastTwo(parts) == Len(parts) >= 2

\* Pop, lines 232-235: the key check
PopKeyOk(parts) == Len(parts) = 2

\* Pop, lines 237-238: the two segments of the key
PopTopicName(parts) == parts[1]

\* The line name taken from the first segment.
PopLineNameFirst(parts) == parts[1]

PopLineName(parts) == parts[2]

\* Create line 146, Push line 228, Confirm line 256: what the topic answered
\* is what the caller gets
CreateLineReturn(err) == err

\* The topic's answer dropped: the caller is told nil.
PushReturnNil(err) == NoErr

PushReturn(err) == err

PopReturnNil(r) == [err |-> NoErr, off |-> r.off]

\* The offset returned as in the failing returns of Pop: 0.
PopReturnZero(r) == [err |-> r.err, off |-> 0]

\* Pop line 246: offset and error of t.pop
PopReturn(r) == [err |-> r.err, off |-> r.off]

ConfirmReturnNil(err) == NoErr

ConfirmReturn(err) == err

\* ------------------------------------------------- persistence and recovery
\* loadTopic, line 97: fmt.Sprintf("%s/%s", topicName, lineName)
lineStoreKey(topicName, lineName) == topicName \o <<"/">> \o lineName

\* getData / storage.Get as the loader sees it: "none" for a key never written
\* (an error or no bytes), "empty" for zero bytes, "garbage" for bytes that do
\* not decode, "ok" for a record
getData(key, records) ==
  IF key \in DOMAIN damage THEN damage[key]
  ELSE IF key \in records THEN "ok"
  ELSE "none"

\* A successful Set replaces whatever bytes the keys held.
Repaired(keys) == [k \in DOMAIN damage \ keys |-> damage[k]]

\* The topic record: head, tail and the names of the lines.
topicStore(t) == [head |-> t.head, tail |-> t.tail, lines |-> DOMAIN t.lines]

\* The line record: cursor, recycle timeout and the in-flight (offset, deadline)
\* pairs.
lineStore(l) ==
  [cursor |-> l.cursor, recycleTimeout |-> l.recycleTimeout,
   inFlight |-> [o \in DOMAIN l.inFlight |-> l.inFlight[o].deadline]]

\* loadLine: the line rebuilt from its record; an entry whose deadline has
\* passed is found by the next recycle scan.
loadLine(rec) ==
  [cursor |-> rec.cursor, recycleTimeout |-> rec.recycleTimeout,
   inFlight |-> [o \in DOMAIN rec.inFlight |->
                   [deadline |-> rec.inFlight[o], ready |-> FALSE]]]

\* exportLines: the record of every line is written; the lines in fail are
\* those whose write fails, which does not stop the writes of the others.
exportLines(t, fail) ==
  LET written == DOMAIN t.lines \ fail
      keys == {lineStoreKey(t.name, ln) : ln \in written}
      lineOf(k) == CHOOSE ln \in written : lineStoreKey(t.name, ln) = k
  IN  [k \in DOMAIN lstore \cup keys |->
         IF k \in keys THEN lineStore(t.lines[lineOf(k)]) ELSE lstore[k]]

exportLinesKeys(t, fail) == {lineStoreKey(t.name, ln) : ln \in DOMAIN t.lines \ fail}

exportLinesErr(t, fail) == IF DOMAIN t.lines \cap fail = {} THEN NoErr ELSE ErrStorage

\* exportTopic: the topic record is written under the topic's name.
exportTopic(t, ok) == IF ok THEN With(tstore, t.name, topicStore(t)) ELSE tstore

exportTopicKeys(t, ok) == IF ok THEN {t.name} ELSE {}

exportTopicErr(ok) == IF ok THEN NoErr ELSE ErrStorage

\* The loop stopping at the first topic whose export fails.
exportTopicsAbort(rest, name, err) == IF err = NoErr THEN rest \ {name} ELSE {}

\* exportTopics, lines 308-319: after a topic's export, failed or not, the loop
\* goes on with the topics left
exportTopicsRest(rest, name, err) == rest \ {name}

\* exportTopics, lines 309-318: the error the loop logs for one topic;
\* exportTopic is not called when exportLines failed
exportTopicsErr(t, fail, ok) ==
  IF exportLinesErr(t, fail) # NoErr THEN exportLinesErr(t, fail) ELSE exportTopicErr(ok)

\* Close, lines 295-297: close(t.quit) for every topic of the registry
closeQuit == running \ {topics[n] : n \in DOMAIN topics}

\* loadQueue, lines 54-64: the names the engine record lists; none when the
\* record is missing, empty or does not decode
Listed ==
  IF getData(StorageKeyWord, IF qstore = <<>> THEN {} ELSE {StorageKeyWord}) = "ok"
  THEN qstore[1]
  ELSE {}

\* A loader that gives up at the first listed topic it cannot read.
loadQueueAllOrNothing ==
  IF \A n \in Listed : getData(n, DOMAIN tstore) = "ok" THEN Listed ELSE {}

\* loadQueue, lines 64-78: the listed topics whose record is read and decoded
loadQueue == {n \in Listed : getData(n, DOMAIN tstore) = "ok"}

\* A loader that takes the tail of a topic for its head.
loadTopicHeadFromTail(rec) == rec.tail

\* loadTopic, line 90
loadTopicHead(rec) == rec.head

\* loadTopic, lines 96-113: the listed lines whose record is read and decoded
loadTopicLines(name, rec) ==
  {ln \in rec.lines : getData(lineStoreKey(name, ln), DOMAIN lstore) = "ok"}

\* loadTopic, lines 87-120: the topic rebuilt from its record
loadTopic(name, rec) ==
  [name |-> name, head |-> loadTopicHead(rec), tail |-> rec.tail,
   lines |-> [ln \in loadTopicLines(name, rec) |->
                loadLine(lstore[lineStoreKey(name, ln)])]]

\* NewUnitedQueue, lines 46-50: loadQueue returns nil on every path
NewUnitedQueueErr == NoErr

\* The elements of a finite set, in some order.
RECURSIVE Enum(_)
Enum(S) ==
  IF S = {} THEN <<>>
  ELSE LET x == CHOOSE y \in S : TRUE IN << x >> \o Enum(S \ {x})

Down == [Idle EXCEPT !.op = "down"]

\* Create: under u.mu.  A request that fails its checks, and a line creation,
\* run to their return in this step.  A topic creation builds the topic, starts
\* its loop and inserts it in the registry; exportQueue follows in createTopicExport.
Create(p, topicName, lineName, recycle) ==
  /\ pc[p].op = "idle"
  /\ mu = ""
  /\ LET c == CreateCheck(topicName, lineName)
     IN CASE c = "line" ->
               LET id == topics[topicName]
                   r == topicCreateLine(heap[id], lineName, recycle)
               IN  /\ heap' = [heap EXCEPT ![id] = r.t]
                   /\ born' = IF r.err = NoErr
                              THEN With(born, << id, lineName >>, heap[id].tail)
                              ELSE born
                   /\ ev' = Event("Create", topicName, lineName, <<>>, 0, id,
                                  CreateLineReturn(r.err), 0)
                   /\ UNCHANGED << topics, running, mu, pc >>
          [] c = "topic" ->
               LET id == Len(heap) + 1
               IN  /\ Len(heap) < MaxTopics
                   /\ heap' = Append(heap, newTopic(topicName))
                   /\ pushOk' = Append(pushOk, 0)
                   /\ running' = running \cup {id}
                   /\ topics' = With(topics, topicName, id)
                   /\ mu' = p
                   /\ pc' = [pc EXCEPT ![p] = [Idle EXCEPT !.op = "createTopic",
                                                           !.tid = id, !.name = topicName]]
                   /\ ev' = Event("Create.insert", topicName, lineName, <<>>, 0, id,
                                  NoErr, 0)
                   /\ UNCHANGED born
          [] OTHER ->
               /\ ev' = Event("Create", topicName, lineName, <<>>, 0, 0, c, 0)
               /\ UNCHANGED << topics, heap, running, mu, pc, born >>
  /\ (CreateCheck(topicName, lineName) # "topic" => UNCHANGED pushOk)
  /\ UNCHANGED << qstore, now, confirmed, tstore, lstore, damage, sclose, todo, created >>

\* createTopic, lines 161-168: exportQueue, the rollback, the return, the unlock
createTopicExport(p, ok) ==
  /\ pc[p].op = "createTopic"
  /\ mu = p
  /\ qstore' = exportQueue(ok)
  /\ topics' = createTopicRollback(pc[p].name, exportQueueErr(ok))
  /\ mu' = ""
  /\ pc' = [pc EXCEPT ![p] = Idle]
  /\ ev' = Event("Create", pc[p].name, EmptyName, <<>>, 0, pc[p].tid,
                 exportQueueErr(ok), 0)
  /\ damage' = exportQueueRepair(ok)
  /\ created' = IF exportQueueErr(ok) = NoErr THEN created \cup {pc[p].name} ELSE created
  /\ UNCHANGED << heap, running, now, pushOk, confirmed, born, tstore, lstore, sclose, todo >>

\* Push, lines 223-226: the registry lookup, without u.mu
Push(p, name) ==
  /\ pc[p].op = "idle"
  /\ IF hasTopic(name)
     THEN /\ pc' = [pc EXCEPT ![p] = [Idle EXCEPT !.op = "Push", !.tid = topics[name],
                                                  !.name = name]]
          /\ ev' = Event("Push.lookup", name, EmptyName, <<>>, 0, topics[name], NoErr, 0)
     ELSE /\ pc' = pc
          /\ ev' = Event("Push", name, EmptyName, <<>>, 0, 0, ErrTopicNotExisted, 0)
  /\ UNCHANGED << topics, heap, running, mu, qstore, now, pushOk, confirmed, born,
                  tstore, lstore, damage, sclose, todo, created >>

\* Push, line 228: t.Push(data) on the topic resolved, and the return
PushTopic(p, ok) ==
  /\ pc[p].op = "Push"
  /\ LET id == pc[p].tid
         r == topicPush(heap[id], ok)
         err == PushReturn(r.err)
     IN  /\ Pushed(heap) < MaxPush
         /\ heap' = [heap EXCEPT ![id] = r.t]
         /\ pushOk' = [pushOk EXCEPT ![id] = IF err = NoErr THEN @ + 1 ELSE @]
         /\ ev' = Event("Push", pc[p].name, EmptyName, <<>>, 0, id, err, heap[id].tail)
  /\ pc' = [pc EXCEPT ![p] = Idle]
  /\ UNCHANGED << topics, running, mu, qstore, now, confirmed, born,
                  tstore, lstore, damage, sclose, todo, created >>

\* Pop, lines 231-247, without u.mu.  The lookup and t.pop are one step: a topic
\* that has a line is never taken out of the registry, and t.pop on a topic
\* without lines answers the same at any later moment.
Pop(p, path) ==
  /\ pc[p].op = "idle"
  /\ LET parts == Split(path)
     IN IF ~PopKeyOk(parts)
        THEN /\ ev' = Event("Pop", EmptyName, EmptyName, path, 0, 0, ErrKey, 0)
             /\ heap' = heap
        ELSE LET tName == PopTopicName(parts)
                 lName == PopLineName(parts)
             IN IF ~hasTopic(tName)
                THEN /\ ev' = Event("Pop", tName, lName, path, 0, 0,
                                    ErrTopicNotExisted, 0)
                     /\ heap' = heap
                ELSE LET id == topics[tName]
                         r == topicPop(heap[id], lName, now)
                     IN  /\ heap' = [heap EXCEPT ![id] = r.t]
                         /\ ev' = Event("Pop", tName, lName, path, 0, id,
                                        PopReturn(r).err, PopReturn(r).off)
  /\ UNCHANGED << topics, running, mu, qstore, now, pc, pushOk, confirmed, born,
                  tstore, lstore, damage, sclose, todo, created >>

\* Confirm, lines 249-257, without u.mu; one step, as Pop.
Confirm(p, topicName, lineName, id) ==
  /\ pc[p].op = "idle"
  /\ IF ~hasTopic(topicName)
     THEN /\ ev' = Event("Confirm", topicName, lineName, <<>>, id, 0,
                         ErrTopicNotExisted, 0)
          /\ UNCHANGED << heap, confirmed >>
     ELSE LET tid == topics[topicName]
              r == topicConfirm(heap[tid], lineName, id)
              err == ConfirmReturn(r.err)
          IN  /\ heap' = [heap EXCEPT ![tid] = r.t]
              /\ confirmed' = IF err = NoErr
                              THEN confirmed \cup
                                     {<< tid, lineName, id, WasRecycled(heap[tid], lineName, id) >>}
                              ELSE confirmed
              /\ ev' = Event("Confirm", topicName, lineName, <<>>, id, tid, err, 0)
  /\ UNCHANGED << topics, running, mu, qstore, now, pc, pushOk, born,
                  tstore, lstore, damage, sclose, todo, created >>

\* The clean timer of a topic's background loop: the recycle scan of its lines.
RecycleScan(id) ==
  /\ id \in running
  /\ heap' = [heap EXCEPT ![id] = topicRecycle(heap[id], now)]
  /\ ev' = Event("recycle", heap[id].name, EmptyName, <<>>, 0, id, NoErr, 0)
  /\ UNCHANGED << topics, running, mu, qstore, now, pc, pushOk, confirmed, born,
                  tstore, lstore, damage, sclose, todo, created >>

Tick ==
  /\ now < MaxClock
  /\ now' = now + 1
  /\ ev' = Event("tick", EmptyName, EmptyName, <<>>, 0, 0, NoErr, 0)
  /\ UNCHANGED << topics, heap, running, mu, qstore, pc, pushOk, confirmed, born,
                  tstore, lstore, damage, sclose, todo, created >>

\* The backup timer of a topic's background loop: exportLines and exportTopic
\* of the topic object, registered or not.
Backup(id, fail, ok) ==
  /\ id \in running
  /\ fail \subseteq DOMAIN heap[id].lines
  /\ lstore' = exportLines(heap[id], fail)
  /\ tstore' = exportTopic(heap[id], ok)
  /\ damage' = Repaired(exportLinesKeys(heap[id], fail) \cup exportTopicKeys(heap[id], ok))
  /\ ev' = Event("backup", heap[id].name, EmptyName, <<>>, sclose, id,
                 exportTopicsErr(heap[id], fail, ok), 0)
  /\ UNCHANGED << topics, heap, running, mu, qstore, now, pc, pushOk, confirmed, born,
                  sclose, todo, created >>

\* Close, lines 291-297: the lock, and close(t.quit) for every registered topic
Close(p) ==
  /\ pc[p].op = "idle"
  /\ mu = ""
  /\ mu' = p
  /\ running' = closeQuit
  /\ todo' = DOMAIN topics
  /\ pc' = [pc EXCEPT ![p] = [Idle EXCEPT !.op = "Close"]]
  /\ ev' = Event("Close.quit", EmptyName, EmptyName, <<>>, 0, 0, NoErr, 0)
  /\ UNCHANGED << topics, heap, qstore, now, pushOk, confirmed, born,
                  tstore, lstore, damage, sclose, created >>

\* exportTopics, lines 308-319: one turn of the loop, for a topic the range
\* over the map yields (in no fixed order)
CloseExport(p, name, fail, ok) ==
  /\ pc[p].op = "Close"
  /\ name \in todo
  /\ LET t == heap[topics[name]]
     IN  /\ fail \subseteq DOMAIN t.lines
         /\ lstore' = exportLines(t, fail)
         /\ tstore' = IF exportLinesErr(t, fail) = NoErr THEN exportTopic(t, ok) ELSE tstore
         /\ damage' = Repaired(exportLinesKeys(t, fail) \cup
                                 IF exportLinesErr(t, fail) = NoErr
                                 THEN exportTopicKeys(t, ok) ELSE {})
         /\ todo' = exportTopicsRest(todo, name, exportTopicsErr(t, fail, ok))
         /\ ev' = Event("Close.export", name, EmptyName, <<>>, 0, topics[name],
                        exportTopicsErr(t, fail, ok), 0)
  /\ UNCHANGED << topics, heap, running, mu, qstore, now, pc, pushOk, confirmed, born,
                  sclose, created >>

\* Close, lines 299-305: exportTopics has returned; storage.Close(), the unlock.
\* The caller issues no further call.
CloseStorage(p) ==
  /\ pc[p].op = "Close"
  /\ todo = {}
  /\ sclose' = sclose + 1
  /\ mu' = ""
  /\ pc' = [pc EXCEPT ![p] = [Idle EXCEPT !.op = "done"]]
  /\ ev' = Event("Close", EmptyName, EmptyName, <<>>, 0, 0, NoErr, 0)
  /\ UNCHANGED << topics, heap, running, qstore, now, pushOk, confirmed, born,
                  tstore, lstore, damage, todo, created >>

\* The process stops (exit or kill): its memory and its goroutines are gone,
\* the storage keeps what was written.
Stop ==
  /\ \E p \in Procs : pc[p].op # "down"
  /\ topics' = [x \in {} |-> 0]
  /\ heap' = <<>>
  /\ running' = {}
  /\ mu' = ""
  /\ pc' = [p \in Procs |-> Down]
  /\ pushOk' = <<>>
  /\ confirmed' = {}
  /\ born' = [x \in {} |-> 0]
  /\ sclose' = 0
  /\ todo' = {}
  /\ ev' = Event("stop", EmptyName, EmptyName, <<>>, 0, 0, NoErr, 0)
  /\ UNCHANGED << qstore, now, tstore, lstore, damage, created >>

\* NewUnitedQueue, lines 40-51, with loadQueue and loadTopic: a new engine on
\* the storage, in a new process or after Close.  Every topic loaded has its
\* loop started (line 116).  ev'.n tells how often the storage had been closed.
NewUnitedQueue(p) ==
  /\ pc[p].op \in {"down", "done"}
  /\ LET names == Enum(loadQueue)
     IN  /\ heap' = [i \in 1..Len(names) |-> loadTopic(names[i], tstore[names[i]])]
         /\ topics' = [n \in loadQueue |-> CHOOSE i \in 1..Len(names) : names[i] = n]
         /\ running' = 1..Len(names)
         /\ pushOk' = [i \in 1..Len(names) |-> 0]
         /\ ev' = Event("NewUnitedQueue", EmptyName, EmptyName, <<>>, sclose, 0,
                        NewUnitedQueueErr, 0)
  /\ mu' = ""
  /\ pc' = [q \in Procs |-> Idle]
  /\ confirmed' = {}
  /\ born' = [x \in {} |-> 0]
  /\ sclose' = 0
  /\ todo' = {}
  /\ UNCHANGED << qstore, now, tstore, lstore, damage, created >>

\* The engine with two callers, two topic names and every shape of request;
\* lines are created with recycle off, so the clock and the scans play no part.
Next ==
  \/ \E p \in Procs, tn \in TopicNames \cup {EmptyName},
        ln \in LineNames \cup {EmptyName} : Create(p, tn, ln, 0)
  \/ \E p \in Procs, ok \in BOOLEAN : createTopicExport(p, ok)
  \/ \E p \in Procs, tn \in TopicNames \cup {EmptyName} : Push(p, tn)
  \/ \E p \in Procs, ok \in BOOLEAN : PushTopic(p, ok)
  \/ \E p \in Procs, tn \in TopicNames : Pop(p, tn \o <<"/", "l">>)
  \/ \E p \in Procs, tn \in TopicNames : Confirm(p, tn, <<"l">>, 0)

Spec == Init /\ [][Next]_vars

\* The delivery protocol of one topic and its line, with the clock and the
\* recycle scans: one caller, topic "t" (topic "u" is never created), line "l".
NextLine ==
  \/ \E rc \in Recycles : Create("p1", <<"t">>, <<"l">>, rc)
  \/ Create("p1", <<"t">>, EmptyName, 0)
  \/ \E ok \in BOOLEAN : createTopicExport("p1", ok)
  \/ \E tn \in TopicNames : Push("p1", tn)
  \/ \E ok \in BOOLEAN : PushTopic("p1", ok)
  \/ \E path \in Paths : Pop("p1", path)
  \/ \E tn \in TopicNames, id \in 0..MaxPush : Confirm("p1", tn, <<"l">>, id)
  \/ \E id \in running : RecycleScan(id)
  \/ Tick

SpecLine == Init /\ [][NextLine]_vars

\* The life of an engine on a storage whose writes all succeed: one caller,
\* line "l" of topic "t" with redelivery on (the clock stands still), the
\* backup timers, Close, the stop of the process at any moment, and the engine
\* built again on the storage.
NextRound ==
  \/ \E tn \in TopicNames : Create("p1", tn, EmptyName, 0)
  \/ Create("p1", <<"t">>, <<"l">>, 1)
  \/ createTopicExport("p1", TRUE)
  \/ Push("p1", <<"t">>)
  \/ PushTopic("p1", TRUE)
  \/ Pop("p1", <<"t", "/", "l">>)
  \/ Confirm("p1", <<"t">>, <<"l">>, 0)
  \/ \E id \in running : Backup(id, {}, TRUE)
  \/ Close("p1")
  \/ \E n \in todo : CloseExport("p1", n, {}, TRUE)
  \/ CloseStorage("p1")
  \/ Stop
  \/ NewUnitedQueue("p1")

SpecRound == Init /\ [][NextRound]_vars

\* Two callers on line "l" of topic "t": both push, pop and confirm while the
\* clock moves and the clean timer scans.  t.pop and t.confirm are one step
\* each: the line serialises them (design document 5).
NextPop ==
  \/ Create("p1", <<"t">>, EmptyName, 0)
  \/ \E rc \in Recycles : Create("p1", <<"t">>, <<"l">>, rc)
  \/ createTopicExport("p1", TRUE)
  \/ \E p \in Procs : Push(p, <<"t">>)
  \/ \E p \in Procs : PushTopic(p, TRUE)
  \/ \E p \in Procs : Pop(p, <<"t", "/", "l">>)
  \/ \E p \in Procs, id \in 0..MaxPush : Confirm(p, <<"t">>, <<"l">>, id)
  \/ \E id \in running : RecycleScan(id)
  \/ Tick

SpecPop == Init /\ [][NextPop]_vars

\* Shutdown on a storage whose writes may fail: one caller, the loops' backup
\* and clean timers, and Close; a failed write of createTopic leaves the topic
\* object of the rolled-back creation behind.
NextClose ==
  \/ \E tn \in TopicNames : Create("p1", tn, EmptyName, 0)
  \/ Create("p1", <<"t">>, <<"l">>, 1)
  \/ \E ok \in BOOLEAN : createTopicExport("p1", ok)
  \/ Push("p1", <<"t">>)
  \/ \E ok \in BOOLEAN : PushTopic("p1", ok)
  \/ \E id \in running, fail \in SUBSET LineNames, ok \in BOOLEAN : Backup(id, fail, ok)
  \/ \E id \in running : RecycleScan(id)
  \/ Close("p1")
  \/ \E n \in todo, fail \in SUBSET LineNames, ok \in BOOLEAN : CloseExport("p1", n, fail, ok)
  \/ CloseStorage("p1")

SpecClose == Init /\ [][NextClose]_vars

\* What a storage may hold when an engine is built on it.  A key holds nothing
\* ("none"), zero bytes ("empty"), bytes that do not decode ("garbage") or a
\* record ("ok").  The engine record lists topic "t" or both topics; topic "t"
\* may list two lines, whose records are drawn likewise.
LoadLineNames == {<<"l">>, <<"m">>}

LoadLineKeys == {lineStoreKey(<<"t">>, ln) : ln \in LoadLineNames}

Unreadable == {"none", "empty", "garbage"}

EngineContents ==
  {[st |-> k, v |-> {}] : k \in Unreadable} \cup
  {[st |-> "ok", v |-> S] : S \in {{<<"t">>}, TopicNames}}

TopicRecords ==
  {[head |-> h, tail |-> 1, lines |-> ls] : h \in {0, 1}, ls \in {{<<"l">>}, LoadLineNames}}

TopicContents ==
  {[st |-> k, v |-> [head |-> 0, tail |-> 0, lines |-> {}]] : k \in Unreadable} \cup
  {[st |-> "ok", v |-> r] : r \in TopicRecords}

LineRecords ==
  { [cursor |-> 0, recycleTimeout |-> 1, inFlight |-> <<>>],
    [cursor |-> 1, recycleTimeout |-> 1, inFlight |-> <<>>],
    [cursor |-> 1, recycleTimeout |-> 1, inFlight |-> [o \in {0} |-> 1]] }

LineContents ==
  {[st |-> k, v |-> [cursor |-> 0, recycleTimeout |-> 0, inFlight |-> <<>>]] : k \in Unreadable}
    \cup {[st |-> "ok", v |-> r] : r \in LineRecords}

\* No engine yet; the storage holds any of these contents.
InitLoad ==
  /\ topics = [x \in {} |-> 0]
  /\ heap = <<>>
  /\ running = {}
  /\ mu = ""
  /\ now = 0
  /\ pc = [p \in Procs |-> Down]
  /\ ev = Event("init", EmptyName, EmptyName, <<>>, 0, 0, NoErr, 0)
  /\ pushOk = <<>>
  /\ confirmed = {}
  /\ born = [x \in {} |-> 0]
  /\ sclose = 0
  /\ todo = {}
  /\ created = {}
  /\ \E cq \in EngineContents, ct \in [TopicNames -> TopicContents],
        cl \in [LoadLineKeys -> LineContents] :
       LET st(k) == IF k = StorageKeyWord THEN cq.st
                    ELSE IF k \in TopicNames THEN ct[k].st ELSE cl[k].st
           keys == {StorageKeyWord} \cup TopicNames \cup LoadLineKeys
       IN  /\ qstore = IF cq.st = "ok" THEN << cq.v >> ELSE <<>>
           /\ tstore = [n \in {x \in TopicNames : ct[x].st = "ok"} |-> ct[n].v]
           /\ lstore = [k \in {x \in LoadLineKeys : cl[x].st = "ok"} |-> cl[k].v]
           /\ damage = [k \in {x \in keys : st(x) \in {"empty", "garbage"}} |-> st(k)]

\* Recovery from any storage, and topic creation on the engine recovered.
NextLoad ==
  \/ NewUnitedQueue("p1")
  \/ \E tn \in TopicNames : Create("p1", tn, EmptyName, 0)
  \/ \E ok \in BOOLEAN : createTopicExport("p1", ok)

SpecLoad == InitLoad /\ [][NextLoad]_vars

\* ------------------------------------------------------------ properties
\* A step is described by ev' (every action sets it).  The first step of a
\* Create is taken with u.mu free; the return of a topic creation is the
\* "Create" step taken with u.mu held.
CreateEnters == mu = "" /\ ev'.op \in {"Create", "Create.insert"}

CreateTopicReturns == mu # "" /\ ev'.op = "Create"

\* While u.mu is held and kept, the registry does not change.
RegistryStableUnderLock == (mu # "" /\ mu' = mu) => topics' = topics

\* C1: Create of a topic name that is not registered, with an empty line name
\* and a storage write that succeeds, returns no error; it registers the name
\* with a new topic of head 0, tail 0 and no lines, leaves the other registered
\* topics as they were, and leaves the stored engine record equal to the set
\* of registered names.
C1_CreateTopic ==
  [][ /\ (ev'.op = "Create.insert" =>
            /\ ev'.name # EmptyName
            /\ ev'.name \notin DOMAIN topics
            /\ DOMAIN topics' = DOMAIN topics \cup {ev'.name}
            /\ topics'[ev'.name] \notin DOMAIN heap
            /\ heap'[topics'[ev'.name]] =
                 [name |-> ev'.name, head |-> 0, tail |-> 0, lines |-> <<>>]
            /\ \A m \in DOMAIN topics :
                 topics'[m] = topics[m] /\ heap'[topics[m]] = heap[topics[m]])
      /\ (CreateTopicReturns =>
            /\ ev'.err \in {NoErr, ErrStorage}
            /\ (ev'.err = NoErr =>
                  /\ ev'.name \in DOMAIN topics'
                  /\ topics' = topics
                  /\ heap' = heap
                  /\ qstore' = << DOMAIN topics' >>))
      /\ RegistryStableUnderLock
    ]_vars

\* A second topic was created with success while the first holds a message.
C1_Witness ==
  /\ ev.op = "Create" /\ ev.line = EmptyName /\ ev.err = NoErr
  /\ Cardinality(DOMAIN topics) = 2
  /\ \E m \in DOMAIN topics : m # ev.name /\ heap[topics[m]].tail > 0
  /\ qstore = << DOMAIN topics >>

\* C2: Create fails with ErrKey when both names are empty, with
\* ErrTopicNotExisted when a line name is given and the topic is not
\* registered, with ErrTopicExisted when the line name is empty and the topic
\* is registered; each of these failures leaves the registry, the topics, their
\* lines and the stored engine record unchanged.
C2_CreateErrors ==
  [][ CreateEnters =>
        /\ (ev'.name = EmptyName /\ ev'.line = EmptyName => ev'.err = ErrKey)
        /\ (ev'.line # EmptyName /\ ev'.name \notin DOMAIN topics =>
              ev'.err = ErrTopicNotExisted)
        /\ (ev'.line = EmptyName /\ ev'.name \in DOMAIN topics =>
              ev'.op = "Create" /\ ev'.err = ErrTopicExisted)
        /\ (ev'.op = "Create"
              /\ ev'.err \in {ErrKey, ErrTopicNotExisted, ErrTopicExisted} =>
              UNCHANGED << topics, heap, running, qstore >>)
    ]_vars

\* A topic that holds a message and a line is created a second time.
C2_Witness ==
  /\ ev.op = "Create" /\ ev.err = ErrTopicExisted
  /\ ev.name \in DOMAIN topics
  /\ heap[topics[ev.name]].tail > 0
  /\ heap[topics[ev.name]].lines # <<>>

\* C3: when the storage write fails during the creation of topic n, Create
\* returns that error, n is not registered at the return and the registry is
\* what it was before the call; a later Create of n is not answered
\* ErrTopicExisted.
C3_CreateRollback ==
  [][ /\ (ev'.op = "Create.insert" =>
            /\ DOMAIN topics' = DOMAIN topics \cup {ev'.name}
            /\ ev'.name \notin DOMAIN topics
            /\ \A m \in DOMAIN topics : topics'[m] = topics[m])
      /\ RegistryStableUnderLock
      /\ (CreateTopicReturns /\ ev'.err # NoErr =>
            /\ ev'.err = ErrStorage
            /\ ev'.name \notin DOMAIN topics'
            /\ topics' = [m \in DOMAIN topics \ {ev'.name} |-> topics[m]]
            /\ qstore' = qstore
            /\ mu' = "")
      /\ (CreateEnters /\ ev'.err = ErrTopicExisted => ev'.name \in DOMAIN topics)
    ]_vars

\* A topic name whose creation was rolled back was created again with success:
\* the heap holds the object of the failed creation beside the registered one.
C3_Witness ==
  /\ ev.op = "Create" /\ ev.line = EmptyName /\ ev.err = NoErr
  /\ \E id \in DOMAIN heap : heap[id].name = ev.name /\ id # topics[ev.name]

\* ---- keys, as a caller writes them: "<topic>/<line>"
Slashes(path) == {i \in 1..Len(path) : path[i] = "/"}

TwoNonEmptySegments(path) ==
  /\ Cardinality(Slashes(path)) = 1
  /\ path[1] # "/"
  /\ path[Len(path)] # "/"

\* For a key with one separator: what stands before it and after it.
KeyTopic(path) == SubSeq(path, 1, Min(Slashes(path)) - 1)

KeyLine(path) == SubSeq(path, Min(Slashes(path)) + 1, Len(path))

EngineState == << topics, heap, running, qstore, pushOk, confirmed, born, pc, mu >>

\* C4, as claimed: Pop fails with ErrKey for every key that is not two
\* non-empty segments around one "/", and changes nothing.
C4_PopKeyAsClaimed ==
  [][ (ev'.op = "Pop" /\ ~TwoNonEmptySegments(ev'.path)) =>
        (ev'.err = ErrKey /\ UNCHANGED EngineState)
    ]_vars

\* C4, amended: Pop fails with ErrKey exactly for the keys that do not hold
\* one "/" (none, or more than one), whatever is registered, and changes
\* nothing.  A key with one "/" and an empty segment passes the check: it is
\* answered ErrTopicNotExisted when what stands before the "/" is not a
\* registered topic (the empty name never is) and ErrLineNotExisted otherwise,
\* and changes nothing either.
C4_PopKey ==
  [][ ev'.op = "Pop" =>
        /\ (ev'.err = ErrKey <=> Cardinality(Slashes(ev'.path)) # 1)
        /\ (~TwoNonEmptySegments(ev'.path) => UNCHANGED EngineState)
        /\ (Cardinality(Slashes(ev'.path)) = 1 /\ ~TwoNonEmptySegments(ev'.path) =>
              ev'.err = IF KeyTopic(ev'.path) \in DOMAIN topics
                        THEN ErrLineNotExisted
                        ELSE ErrTopicNotExisted)
        /\ EmptyName \notin DOMAIN topics
    ]_vars

\* Pop("t/") on a registered topic "t" that has a line: answered ErrLineNotExisted.
C4_Witness ==
  /\ ev.op = "Pop" /\ ev.path = <<"t", "/">> /\ ev.err = ErrLineNotExisted
  /\ <<"t">> \in DOMAIN topics
  /\ heap[topics[<<"t">>]].lines # <<>>

\* C5: Push, Pop with a key of two segments, and Confirm, naming a topic that
\* is not registered, fail with ErrTopicNotExisted and change nothing; naming a
\* registered topic, they do what that topic does and return what it returns.
C5_Delegation ==
  [][ /\ (ev'.op \in {"Push", "Pop", "Confirm"} /\ ev'.err = ErrTopicNotExisted =>
            UNCHANGED EngineState)
      /\ (ev'.op = "Push" /\ ev'.tid = 0 =>
            ev'.name \notin DOMAIN topics /\ ev'.err = ErrTopicNotExisted)
      /\ (ev'.op = "Push.lookup" =>
            /\ ev'.name \in DOMAIN topics
            /\ ev'.tid = topics[ev'.name]
            /\ UNCHANGED << topics, heap, qstore >>)
      /\ (ev'.op = "Push" /\ ev'.tid # 0 =>
            \E ok \in BOOLEAN :
               LET r == topicPush(heap[ev'.tid], ok)
               IN  ev'.err = r.err /\ heap' = [heap EXCEPT ![ev'.tid] = r.t])
      /\ (ev'.op = "Pop" /\ Cardinality(Slashes(ev'.path)) = 1 =>
            IF KeyTopic(ev'.path) \notin DOMAIN topics
            THEN ev'.err = ErrTopicNotExisted
            ELSE LET id == topics[KeyTopic(ev'.path)]
                     r == topicPop(heap[id], KeyLine(ev'.path), now)
                 IN  /\ ev'.err = r.err
                     /\ ev'.off = r.off
                     /\ heap' = [heap EXCEPT ![id] = r.t])
      /\ (ev'.op = "Confirm" =>
            IF ev'.name \notin DOMAIN topics
            THEN ev'.err = ErrTopicNotExisted
            ELSE LET id == topics[ev'.name]
                     r == topicConfirm(heap[id], ev'.line, ev'.n)
                 IN  /\ ev'.err = r.err
                     /\ heap' = [heap EXCEPT ![id] = r.t])
    ]_vars

\* A Confirm on a topic that is not registered, while a line of a registered
\* topic holds an in-flight offset.
C5_Witness ==
  /\ ev.op = "Confirm" /\ ev.err = ErrTopicNotExisted
  /\ \E id \in DOMAIN heap : \E ln \in DOMAIN heap[id].lines :
        heap[id].lines[ln].inFlight # <<>>

\* C6: the successful pushes on a topic are given the offsets 0, 1, 2, ... in
\* the order they take effect, without gap or reuse, whatever the interleaving
\* of the callers; the topic's tail is the number of successful pushes and
\* never decreases.
C6_PushOffsets ==
  [][ /\ (ev'.op = "Push" /\ ev'.tid # 0 /\ ev'.err = NoErr =>
            /\ ev'.off = pushOk[ev'.tid]
            /\ heap'[ev'.tid].tail = ev'.off + 1)
      /\ (ev'.op = "Push" /\ ev'.tid # 0 /\ ev'.err # NoErr => heap' = heap)
      /\ \A id \in DOMAIN heap : heap'[id].tail >= heap[id].tail
      /\ \A id \in DOMAIN heap' : heap'[id].tail = pushOk'[id]
    ]_vars

\* A push has just taken offset 1 of a topic that another caller has resolved
\* and not yet pushed to.
C6_Witness ==
  /\ ev.op = "Push" /\ ev.tid # 0 /\ ev.err = NoErr /\ ev.off = 1
  /\ \E p \in Procs : pc[p].op = "Push" /\ pc[p].tid = ev.tid

\* The line a step's key names, when the topic is registered and has it.
KeyHasLine(path) ==
  /\ TwoNonEmptySegments(path)
  /\ KeyTopic(path) \in DOMAIN topics
  /\ KeyLine(path) \in DOMAIN heap[topics[KeyTopic(path)]].lines

LineOf(h, path) == h[topics[KeyTopic(path)]].lines[KeyLine(path)]

TailOf(h, path) == h[topics[KeyTopic(path)]].tail

\* C7: a line created after N pushes starts with cursor N and nothing in
\* flight; Pop on it never returns an offset below N; while nothing is
\* recycled, Pop returns the offset at cursor and advances cursor by one, and
\* fails with ErrNone when cursor has reached tail.
C7_LineStartsAtTail ==
  [][ /\ (ev'.op = "Create" /\ ev'.line # EmptyName /\ ev'.err = NoErr =>
            LET l == heap'[ev'.tid].lines[ev'.line]
            IN  /\ l.cursor = heap[ev'.tid].tail
                /\ l.inFlight = <<>>
                /\ born'[<< ev'.tid, ev'.line >>] = pushOk[ev'.tid])
      /\ (ev'.op = "Pop" /\ KeyHasLine(ev'.path) =>
            LET l == LineOf(heap, ev'.path)
                N == born[<< topics[KeyTopic(ev'.path)], KeyLine(ev'.path) >>]
            IN  /\ N <= l.cursor /\ l.cursor <= TailOf(heap, ev'.path)
                /\ (ev'.err = NoErr => ev'.off >= N)
                /\ (Recycled(l) = {} /\ l.cursor < TailOf(heap, ev'.path) =>
                      /\ ev'.err = NoErr
                      /\ ev'.off = l.cursor
                      /\ LineOf(heap', ev'.path).cursor = l.cursor + 1)
                /\ (Recycled(l) = {} /\ l.cursor = TailOf(heap, ev'.path) =>
                      ev'.err = ErrNone /\ heap' = heap))
    ]_vars

\* A line created after one push has been popped up to the tail: Pop returned
\* offset 1, the first it could return.
C7_Witness ==
  /\ ev.op = "Pop" /\ ev.err = NoErr /\ ev.tid # 0
  /\ born[<< ev.tid, ev.line >>] = 1
  /\ ev.off = 1
  /\ heap[ev.tid].lines[ev.line].cursor = heap[ev.tid].tail

\* C8: on a line with recycleTimeout > 0, an offset popped, not confirmed,
\* whose deadline has passed and was seen by a recycle scan, is returned by the
\* next Pop: the lowest such offset, before the offset at cursor; cursor stays
\* and the offset's deadline becomes now + recycleTimeout.
C8_Redelivery ==
  [][ /\ (ev'.op = "recycle" =>
            \A ln \in DOMAIN heap[ev'.tid].lines :
               LET l == heap[ev'.tid].lines[ln]
               IN  \A o \in DOMAIN l.inFlight :
                      l.inFlight[o].deadline <= now =>
                         /\ o \in DOMAIN heap'[ev'.tid].lines[ln].inFlight
                         /\ heap'[ev'.tid].lines[ln].inFlight[o].ready)
      /\ (ev'.op = "Pop" /\ KeyHasLine(ev'.path) =>
            LET l == LineOf(heap, ev'.path)
                E == {o \in DOMAIN l.inFlight : l.inFlight[o].ready}
            IN  E # {} =>
                  /\ l.recycleTimeout > 0
                  /\ ev'.err = NoErr
                  /\ \A o \in E : ev'.off <= o
                  /\ ev'.off \in E
                  /\ LineOf(heap', ev'.path).cursor = l.cursor
                  /\ LineOf(heap', ev'.path).inFlight[ev'.off] =
                       [deadline |-> now + l.recycleTimeout, ready |-> FALSE])
    ]_vars

\* Offsets 0 and 1 were popped and both expired; Pop has just returned 0 again,
\* 1 still waits to be redelivered.
C8_Witness ==
  /\ ev.op = "Pop" /\ ev.err = NoErr /\ ev.tid # 0 /\ ev.off = 0
  /\ LET l == heap[ev.tid].lines[ev.line]
     IN  /\ l.cursor = 2
         /\ 1 \in DOMAIN l.inFlight /\ l.inFlight[1].ready
         /\ l.inFlight[0] = [deadline |-> now + l.recycleTimeout, ready |-> FALSE]

\* C9: once Confirm of offset o on a line has succeeded, no Pop on that line
\* returns o again, whatever pushes, pops, confirms, clock advances and recycle
\* scans follow, also when the offset had expired and been marked by a scan
\* before the Confirm.
C9_ConfirmedNotRedelivered ==
  [][ /\ (ev'.op = "Pop" /\ ev'.err = NoErr =>
            \A b \in BOOLEAN : << ev'.tid, ev'.line, ev'.off, b >> \notin confirmed)
      /\ (ev'.op = "Confirm" /\ ev'.err = NoErr =>
            /\ ev'.tid \in DOMAIN heap
            /\ ev'.line \in DOMAIN heap[ev'.tid].lines
            /\ ev'.n \in DOMAIN heap[ev'.tid].lines[ev'.line].inFlight
            /\ ev'.n \notin DOMAIN heap'[ev'.tid].lines[ev'.line].inFlight
            /\ ev'.n < heap'[ev'.tid].lines[ev'.line].cursor)
      /\ confirmed \subseteq confirmed'
    ]_vars

\* Offset 0 had expired and been marked by a scan when it was confirmed; the
\* Pop that followed delivered offset 1, not 0 again.
C9_Witness ==
  /\ ev.op = "Pop" /\ ev.err = NoErr /\ ev.tid # 0 /\ ev.off = 1
  /\ << ev.tid, ev.line, 0, TRUE >> \in confirmed
  /\ heap[ev.tid].lines[ev.line].recycleTimeout > 0

\* C10: Confirm of an offset that is not in flight on the line fails with
\* ErrNotDelivered and leaves the line as it was: an offset never popped, an
\* offset already confirmed, an offset popped on a line with recycle off.
C10_ConfirmNotDelivered ==
  [][ (/\ ev'.op = "Confirm"
       /\ ev'.name \in DOMAIN topics
       /\ ev'.line \in DOMAIN heap[topics[ev'.name]].lines
       /\ ev'.n \notin DOMAIN heap[topics[ev'.name]].lines[ev'.line].inFlight) =>
        /\ ev'.err = ErrNotDelivered
        /\ heap' = heap
        /\ confirmed' = confirmed
    ]_vars

\* The second Confirm of a delivery.
C10_Witness ==
  /\ ev.op = "Confirm" /\ ev.err = ErrNotDelivered
  /\ \E b \in BOOLEAN : << ev.tid, ev.line, ev.n, b >> \in confirmed

\* ------------------------------------------------ persistence properties
\* What is compared of two engines: the registered names, and per topic its
\* head, tail and lines, and per line its cursor, recycle timeout and the
\* offsets in flight.
LineView(l) ==
  [cursor |-> l.cursor, recycleTimeout |-> l.recycleTimeout, inFlight |-> DOMAIN l.inFlight]

TopicView(t) ==
  [head |-> t.head, tail |-> t.tail,
   lines |-> [ln \in DOMAIN t.lines |-> LineView(t.lines[ln])]]

EngineView == [n \in DOMAIN topics |-> TopicView(heap[topics[n]])]

\* C11: export followed by load is a round trip.  On a storage whose writes
\* all succeed, the engine built after Close has closed the storage has the
\* topic names of the engine that was closed, and for each topic the same
\* head, tail and line names, and for each line the same cursor, recycle
\* timeout and in-flight offsets.
C11_RoundTrip ==
  [][ (ev'.op = "NewUnitedQueue" /\ \E p \in Procs : pc[p].op = "done") =>
        EngineView' = EngineView ]_vars

\* An engine loaded after Close, with a topic that has messages and a line
\* that has moved its cursor and has an offset in flight.
C11_Witness ==
  /\ ev.op = "NewUnitedQueue"
  /\ ev.n > 0
  /\ \E n \in DOMAIN topics :
       /\ heap[topics[n]].tail > 0
       /\ \E ln \in DOMAIN heap[topics[n]].lines :
            /\ heap[topics[n]].lines[ln].cursor > 0
            /\ heap[topics[n]].lines[ln].inFlight # <<>>

\* C12: a topic whose Create returned success survives a restart.  Whenever
\* an engine is built on the storage (whose writes all succeeded), every topic
\* whose Create has returned nil before is registered in it.
C12_CreatedSurvives ==
  [][ ev'.op = "NewUnitedQueue" => created \subseteq DOMAIN topics' ]_vars

\* The names in the engine record, when the record decodes.
RecordNames ==
  IF qstore # <<>> /\ StorageKeyWord \notin DOMAIN damage THEN qstore[1] ELSE {}

\* The topic record, or the line record, is there and decodes.
TopicDecodes(n) == n \in DOMAIN tstore /\ n \notin DOMAIN damage

LineDecodes(n, ln) ==
  lineStoreKey(n, ln) \in DOMAIN lstore /\ lineStoreKey(n, ln) \notin DOMAIN damage

\* C13: startup recovery is isolated per record.  For any storage contents
\* NewUnitedQueue returns an engine and no error.  The engine has exactly the
\* listed topics whose record decodes, each with its persisted head and tail;
\* a topic whose record is missing, empty or undecodable is skipped.  A loaded
\* topic has exactly those of its listed lines whose record decodes, each with
\* its persisted cursor, recycle timeout and in-flight offsets; a line whose
\* record is missing, empty or undecodable is skipped.
C13_LoadIsolated ==
  [][ ev'.op = "NewUnitedQueue" =>
        /\ ev'.err = NoErr
        /\ DOMAIN topics' = {n \in RecordNames : TopicDecodes(n)}
        /\ \A n \in DOMAIN topics' :
             LET t == heap'[topics'[n]]
             IN  /\ t.head = tstore[n].head
                 /\ t.tail = tstore[n].tail
                 /\ DOMAIN t.lines = {ln \in tstore[n].lines : LineDecodes(n, ln)}
                 /\ \A ln \in DOMAIN t.lines :
                      LET r == lstore[lineStoreKey(n, ln)]
                      IN  LineView(t.lines[ln]) =
                            [cursor |-> r.cursor, recycleTimeout |-> r.recycleTimeout,
                             inFlight |-> DOMAIN r.inFlight] ]_vars

\* An engine just loaded: a listed topic was skipped, another is registered
\* with a head above 0, one of its lines skipped and another loaded with an
\* offset in flight.
C13_Witness ==
  /\ ev.op = "NewUnitedQueue"
  /\ RecordNames \ DOMAIN topics # {}
  /\ \E n \in DOMAIN topics :
       /\ heap[topics[n]].head > 0
       /\ tstore[n].lines \ DOMAIN heap[topics[n]].lines # {}
       /\ \E ln \in DOMAIN heap[topics[n]].lines : heap[topics[n]].lines[ln].inFlight # <<>>

\* C20: the engine record does not lose a topic name through recovery followed
\* by creation.  A name the record lists that is not registered (it was
\* skipped at load) is still listed after a Create has returned success.
C20_RecordKeepsSkipped ==
  [][ (ev'.op = "Create" /\ mu # "" /\ ev'.err = NoErr) =>
        \A n \in RecordNames \ DOMAIN topics : n \in RecordNames' ]_vars

\* The topic objects of the registry.
Registered == {topics[n] : n \in DOMAIN topics}

\* Close has signalled the loops of the registered topics.
CloseSignalled == \E p \in Procs : pc[p].op \in {"Close", "done"}

\* C14: Close, holding the engine lock, first signals the quit channel of
\* every registered topic, then attempts the export of every registered topic
\* (a failed export does not stop the attempts for the others) and only then
\* closes the storage; the storage is closed exactly once, whether or not an
\* export failed.
C14_CloseOrder ==
  [][ /\ (ev'.op = "Close.quit" =>
            /\ mu = "" /\ mu' # ""
            /\ running' \cap Registered = {}
            /\ todo' = DOMAIN topics
            /\ UNCHANGED << tstore, lstore >>)
      /\ (ev'.op = "Close.export" =>
            /\ mu # "" /\ mu' = mu
            /\ running \cap Registered = {}
            /\ ev'.name \in todo
            /\ todo' = todo \ {ev'.name})
      /\ (ev'.op = "Close" =>
            /\ mu # "" /\ mu' = ""
            /\ todo = {}
            /\ sclose = 0 /\ sclose' = 1)
      /\ (ev'.op # "Close" => sclose' = sclose)
      /\ (CloseSignalled => topics' = topics) ]_vars

\* Close has returned with two topics registered: the export of one failed
\* (it has no topic record), the export of the other was written.
C14_Witness ==
  /\ ev.op = "Close"
  /\ sclose = 1
  /\ \E n \in DOMAIN topics, m \in DOMAIN topics :
       n \notin DOMAIN tstore /\ m \in DOMAIN tstore

\* C18: after Close has signalled a topic's loop, that loop starts no further
\* backup or recycle scan, and no loop writes to the storage after Close has
\* closed it.
C18_NoLoopWorkAfterClose ==
  [][ ev'.op \in {"backup", "recycle"} =>
        /\ (CloseSignalled => ev'.tid \notin Registered)
        /\ (ev'.op = "backup" => sclose = 0) ]_vars

\* ------------------------------------------------ concurrency properties
\* The step reads u.topics on behalf of Push, Pop or Confirm: the lookup of
\* Push (found or not), a Pop whose key passed the check, a Confirm.
ReadsRegistry ==
  \/ ev'.op = "Push.lookup"
  \/ ev'.op = "Push" /\ ev'.tid = 0
  \/ ev'.op = "Pop" /\ ev'.err # ErrKey
  \/ ev'.op = "Confirm"

\* C15: Push, Pop and Confirm read the topic map only under the engine lock
\* that Create holds while it writes the map: no read of the map is made while
\* a Create holds the lock between its insertion and its return.
C15_ReadsUnderLock == [][ ReadsRegistry => mu = "" ]_vars

\* C16: topic creation is all-or-nothing visible.  No caller holds, as the
\* topic it resolved a name to, a topic that is not in the registry, and no
\* Push has returned success on such a topic: a creation that is rolled back
\* was seen by nobody.
C16_CreateAllOrNothing ==
  /\ \A p \in Procs : pc[p].op = "Push" => pc[p].tid \in Registered
  /\ \A id \in 1..Len(heap) : pushOk[id] > 0 => id \in Registered

\* C19: before Close, the topics whose background loop has been started and
\* not signalled to stop are the topics of the registry; a topic whose
\* creation was rolled back has no loop left running.
C19_LoopsAreRegistered == running = Registered

\* The lines that exist before and after the step.
LinesKept ==
  {x \in (1..Len(heap)) \X LineNames :
     /\ x[1] \in 1..Len(heap')
     /\ x[2] \in DOMAIN heap[x[1]].lines
     /\ x[2] \in DOMAIN heap'[x[1]].lines}

\* C17: concurrent Pop calls on a line never get the same offset as a fresh
\* delivery.  A successful Pop either advances the cursor by exactly one and
\* returns the offset the cursor was at, or leaves the cursor and returns an
\* offset a scan has recycled; no other step moves a cursor, so the fresh
\* offsets are pairwise distinct.  On a line with recycleTimeout > 0 the
\* offset returned is in flight when the Pop returns.
C17_FreshPopsDistinct ==
  [][ /\ ((ev'.op = "Pop" /\ ev'.err = NoErr) =>
            LET l == heap[ev'.tid].lines[ev'.line]
                k == heap'[ev'.tid].lines[ev'.line]
            IN  /\ \/ k.cursor = l.cursor + 1 /\ ev'.off = l.cursor
                   \/ k.cursor = l.cursor /\ ev'.off \in Recycled(l) /\ ev'.off < l.cursor
                /\ (l.recycleTimeout > 0 => ev'.off \in DOMAIN k.inFlight))
      /\ \A x \in LinesKept :
           (ev'.op = "Pop" /\ ev'.err = NoErr /\ ev'.tid = x[1] /\ ev'.line = x[2])
             \/ heap'[x[1]].lines[x[2]].cursor = heap[x[1]].lines[x[2]].cursor ]_vars

\* The second fresh delivery of a line with redelivery on: offset 1 is
\* returned while offset 0, popped before by either caller, is in flight.
C17_Witness ==
  /\ ev.op = "Pop"
  /\ ev.err = NoErr
  /\ ev.off = 1
  /\ {0, 1} \subseteq DOMAIN heap[ev.tid].lines[ev.line].inFlight
  /\ heap[ev.tid].lines[ev.line].cursor = 2
====
